---- MODULE Spec2Model ----
(***************************************************************************)
(* The hastrology_program lottery: one LotteryState account, a pot vault,  *)
(* one UserEntryReceipt per (user, lottery id), one UserTicket per         *)
(* (lottery id, index), and the six instructions of lib.rs.  Every         *)
(* instruction is one atomic action, enabled where the call succeeds: a    *)
(* failing call reverts every write of the call, so it is no step.  The    *)
(* outcome of a call in a state is the value of its ...Error operator.     *)
(*                                                                         *)
(* Account validation follows the #[derive(Accounts)] structs: all         *)
(* accounts are loaded in field order (`init` accounts are created while   *)
(* loading), then the constraints are checked in field order, then the     *)
(* handler runs.                                                           *)
(*                                                                         *)
(* The u64 range is scaled down, one ceiling per kind of quantity, since   *)
(* the kinds never meet in one arithmetic expression of the program:       *)
(* total_participants, winner and the ticket index live in 0..U64_MAX,     *)
(* current_lottery_id in 0..LOTTERY_ID_MAX, lamports in 0..LAMPORTS_MAX.   *)
(* Rent and transaction fees charged by the runtime are not part of the    *)
(* ledger modelled here.                                                   *)
(***************************************************************************)
EXTENDS Integers, FiniteSets, Sequences, TLC

\* ---------------------------------------------------------------- bounds
\* Scaled u64::MAX of total_participants, winner and the ticket index.
U64_MAX == 2
\* Scaled u64::MAX of current_lottery_id.
LOTTERY_ID_MAX == 3
\* Scaled width of a lamport amount: lamports are in 0 .. 2^LamportBits - 1.
LamportBits == 24
LAMPORTS_MAX == 2^LamportBits - 1
\* Oracle requests that may be outstanding at once.
MaxPending == 1
\* Lamports each user holds before the lottery is initialized.
UserLamports == 2000

\* ------------------------------------------------------ program constants
BPS_DENOMINATOR == 10000
MAX_FEE_BPS == 10000
PAYOUT_EXTENSION == 86400
RESET_EXTENSION == 100

\* ------------------------------------------------------------ identities
Authority == "authority"
Users == {"u1", "u2", "u3"}
Signers == {Authority, "u1"}
PotVault == "pot_vault"
PlatformWallet == "platform_wallet"
Holders == Users \cup {PotVault, PlatformWallet}
VRF_PROGRAM_IDENTITY == "vrf_identity"
DEFAULT_QUEUE == "default_queue"
OracleQueues == {DEFAULT_QUEUE, "other_queue"}
CallbackSigners == {VRF_PROGRAM_IDENTITY, "u1"}
\* The account handed in where no initialized UserTicket exists.
NoAccount == <<0, 0>>

\* ------------------------------------------------- inputs of initialize
TicketPrices == {0, 1010}
FeeBpsValues == {500, 10000, 10001}
FirstEndTime == 100

VARIABLES
    lottery_state,     \* the LotteryState account
    lamports,          \* lamports of the pot vault, the platform wallet, the users
    tickets,           \* UserTicket accounts, keyed <<lottery id, index>>
    receipts,          \* UserEntryReceipt accounts, keyed <<user, lottery id>>
    now,               \* Clock::unix_timestamp
    pending,           \* randomness requests the oracle has not answered yet
    overflow_checks,   \* whether the build panics on arithmetic overflow
    last,              \* the last instruction that succeeded
    resolved,          \* a callback wrote winner since this round's request
    paid               \* the lottery ids paid out, in order

vars == <<lottery_state, lamports, tickets, receipts, now, pending,
          overflow_checks, last, resolved, paid>>

Ok == "Ok"

\* ------------------------------------------------------------- initialize
\* The two require! of initialize_handle.
InitializeError(ticket_price, platform_fee_bps) ==
    IF ~(platform_fee_bps <= MAX_FEE_BPS) THEN "InvalidPlatformFee"
    ELSE IF ~(ticket_price > 0) THEN "InvalidTicketPrice"
    ELSE Ok

\* The LotteryState written by initialize_handle.
InitialLotteryState(ticket_price, platform_fee_bps, first_lottery_endtime) ==
    [ authority          |-> Authority,
      platform_wallet    |-> PlatformWallet,
      platform_fee_bps   |-> platform_fee_bps,
      ticket_price       |-> ticket_price,
      winner             |-> 0,
      current_lottery_id |-> 1,
      total_participants |-> 0,
      is_drawing         |-> FALSE,
      lottery_endtime    |-> first_lottery_endtime,
      commit_slot        |-> 0 ]

Init ==
    /\ \E p \in TicketPrices, f \in FeeBpsValues :
          /\ InitializeError(p, f) = Ok
          /\ lottery_state = InitialLotteryState(p, f, FirstEndTime)
    /\ lamports = [h \in Holders |-> IF h \in Users THEN UserLamports ELSE 0]
    /\ tickets = << >>
    /\ receipts = << >>
    /\ now = FirstEndTime - 1
    /\ pending = 0
    /\ overflow_checks \in BOOLEAN
    /\ last = "initialize"
    /\ resolved = FALSE
    /\ paid = << >>

\* ------------------------------------------------------------------ clock
\* The clock is observed at the end time of the current round and one reset
\* extension after it.
TimePoints ==
    {lottery_state.lottery_endtime, lottery_state.lottery_endtime + RESET_EXTENSION}

Tick ==
    /\ \E t \in TimePoints : t > now /\ now' = t
    /\ UNCHANGED <<lottery_state, lamports, tickets, receipts, pending,
                   overflow_checks, last, resolved, paid>>

\* ---------------------------------------------------------- enter_lottery
\* The receipt seeds without the lottery id.
ReceiptKey_NoLotteryId(user) == <<user, 0>>

\* The seeds of user_entry_receipt and of the new user_ticket.
ReceiptKey(user) == <<user, lottery_state.current_lottery_id>>
NewTicketKey_OneBased ==
    <<lottery_state.current_lottery_id, lottery_state.total_participants + 1>>
NewTicketKey == <<lottery_state.current_lottery_id, lottery_state.total_participants>>

\* enter_lottery refusing the last ticket below the ceiling.
EnterLotteryError_EarlyOverflow(user) ==
    IF ReceiptKey(user) \in DOMAIN receipts THEN "ReceiptAlreadyInUse"
    ELSE IF NewTicketKey \in DOMAIN tickets THEN "TicketAlreadyInUse"
    ELSE IF lottery_state.is_drawing THEN "LotteryIsDrawing"
    ELSE IF lottery_state.total_participants + 1 >= U64_MAX THEN "Overflow"
    ELSE IF lamports[user] < lottery_state.ticket_price THEN "InsufficientFunds"
    ELSE Ok

\* enter_lottery without the require! on is_drawing.
EnterLotteryError_NoDrawingCheck(user) ==
    IF ReceiptKey(user) \in DOMAIN receipts THEN "ReceiptAlreadyInUse"
    ELSE IF NewTicketKey \in DOMAIN tickets THEN "TicketAlreadyInUse"
    ELSE IF lottery_state.total_participants + 1 > U64_MAX THEN "Overflow"
    ELSE IF lamports[user] < lottery_state.ticket_price THEN "InsufficientFunds"
    ELSE Ok

\* The outcome of enter_lottery for `user`: the two `init` accounts first, then
\* the handler.
EnterLotteryError(user) ==
    IF ReceiptKey(user) \in DOMAIN receipts THEN "ReceiptAlreadyInUse"
    ELSE IF NewTicketKey \in DOMAIN tickets THEN "TicketAlreadyInUse"
    ELSE IF lottery_state.is_drawing THEN "LotteryIsDrawing"
    ELSE IF lottery_state.total_participants + 1 > U64_MAX THEN "Overflow"
    ELSE IF lamports[user] < lottery_state.ticket_price THEN "InsufficientFunds"
    ELSE IF lamports[PotVault] + lottery_state.ticket_price > LAMPORTS_MAX
         THEN "ArithmeticOverflow"
    ELSE Ok

EnterLottery(user) ==
    LET ticket_number == lottery_state.total_participants + 1
    IN  /\ EnterLotteryError(user) = Ok
        /\ last' = "enter_lottery"
        /\ receipts' = (ReceiptKey(user) :>
                           [ user          |-> user,
                             lottery_id    |-> lottery_state.current_lottery_id,
                             ticket_number |-> ticket_number ]) @@ receipts
        /\ tickets' = (NewTicketKey :>
                           [ user         |-> user,
                             lottery_id   |-> lottery_state.current_lottery_id,
                             is_winner    |-> FALSE,
                             prize_amount |-> 0,
                             is_claimed   |-> FALSE ]) @@ tickets
        /\ lamports' = [lamports EXCEPT
                           ![user] = @ - lottery_state.ticket_price,
                           ![PotVault] = @ + lottery_state.ticket_price]
        /\ lottery_state' = [lottery_state EXCEPT !.total_participants = @ + 1]
        /\ UNCHANGED <<now, pending, overflow_checks, resolved, paid>>

\* ----------------------------------------------------------- request_draw
\* The outcome of request_draw: the authority constraint, the oracle queue
\* address (reported with the Overflow code), then the handler's time gate.
RequestDrawError_NoAuthority(signer, oracle_queue) ==
    IF oracle_queue # DEFAULT_QUEUE THEN "Overflow"
    ELSE IF ~(now >= lottery_state.lottery_endtime) THEN "LotteryNotOver"
    ELSE Ok

RequestDrawError(signer, oracle_queue) ==
    IF signer # lottery_state.authority THEN "UnauthorizedAuthority"
    ELSE IF oracle_queue # DEFAULT_QUEUE THEN "Overflow"
    ELSE IF ~(now >= lottery_state.lottery_endtime) THEN "LotteryNotOver"
    ELSE Ok

RequestDraw(signer, oracle_queue) ==
    /\ RequestDrawError(signer, oracle_queue) = Ok
    /\ pending < MaxPending
    /\ last' = "request_draw"
    /\ lottery_state' = [lottery_state EXCEPT !.is_drawing = TRUE]
    /\ pending' = pending + 1
    /\ UNCHANGED <<lamports, tickets, receipts, now, overflow_checks,
                   resolved, paid>>

\* ----------------------------------------------------------- resolve_draw
\* The raw 64-bit values random_u64 derives from the 32 bytes of randomness.
RandomValues == 0..U64_MAX

\* resolve_draw_handler storing the 0-based winning index.
ResolvedWinner_ZeroBased(raw_random_value, total_participants) ==
    IF total_participants = 0 THEN 0
    ELSE raw_random_value % total_participants

\* The winner resolve_draw_handler writes for a raw random value.
ResolvedWinner(raw_random_value, total_participants) ==
    IF total_participants = 0 THEN 0
    ELSE (raw_random_value % total_participants) + 1

\* resolve_draw_handler accepting a callback only while a draw is requested.
ResolveDrawError_NeedsDrawing(signer, raw_random_value) ==
    IF signer # VRF_PROGRAM_IDENTITY THEN "ConstraintAddress"
    ELSE IF ~lottery_state.is_drawing THEN "DrawNotRequested"
    ELSE Ok

ResolveDrawError(signer, raw_random_value) ==
    IF signer # VRF_PROGRAM_IDENTITY THEN "ConstraintAddress"
    ELSE IF ResolvedWinner(raw_random_value, lottery_state.total_participants) > U64_MAX
         THEN "Overflow"
    ELSE Ok

\* A callback accepted by the program answers an outstanding request.
ResolveDraw(signer, raw_random_value) ==
    /\ ResolveDrawError(signer, raw_random_value) = Ok
    /\ pending > 0
    /\ last' = "resolve_draw"
    /\ pending' = pending - 1
    /\ lottery_state' = [lottery_state EXCEPT !.winner =
           ResolvedWinner(raw_random_value, lottery_state.total_participants)]
    /\ resolved' = (resolved \/ lottery_state.is_drawing)
    /\ UNCHANGED <<lamports, tickets, receipts, now, overflow_checks, paid>>

\* ----------------------------------------------------------------- payout
\* `lottery_state.winner - 1` of the winning_ticket seeds, as u64: without
\* overflow checks 0 - 1 wraps to u64::MAX.
WinnerSeedIndex(winner) == IF winner = 0 THEN U64_MAX ELSE winner - 1

\* `total_pot_balance * platform_fee_bps / 10_000`, the product as u64.
PlatformFeeAmount(total_pot_balance, platform_fee_bps) ==
    ((total_pot_balance * platform_fee_bps) % (LAMPORTS_MAX + 1)) \div BPS_DENOMINATOR

WinnerPrizeAmount(total_pot_balance, platform_fee_amount) ==
    total_pot_balance - platform_fee_amount

\* payout_handler crediting the platform wallet with nothing.
PayoutLamports_FeeNotCredited(lp, winner, platform_fee_amount, winner_prize_amount) ==
    LET l1 == [lp EXCEPT ![PotVault] = @ - platform_fee_amount]
        l3 == [l1 EXCEPT ![PotVault] = @ - winner_prize_amount]
    IN  [l3 EXCEPT ![winner] = @ + winner_prize_amount]

\* payout_handler leaving the platform fee in the pot vault.
PayoutLamports_FeeKept(lp, winner, platform_fee_amount, winner_prize_amount) ==
    LET l3 == [lp EXCEPT ![PotVault] = @ - winner_prize_amount]
    IN  [l3 EXCEPT ![winner] = @ + winner_prize_amount]

\* The lamports after the two debits of the pot vault and the two credits.
PayoutLamports(lp, winner, platform_fee_amount, winner_prize_amount) ==
    LET l1 == [lp EXCEPT ![PotVault] = @ - platform_fee_amount]
        l2 == [l1 EXCEPT ![PlatformWallet] = @ + platform_fee_amount]
        l3 == [l2 EXCEPT ![PotVault] = @ - winner_prize_amount]
    IN  [l3 EXCEPT ![winner] = @ + winner_prize_amount]

\* payout_handler without its roll-over of the round.
PayoutLotteryState_NoRollover(ls) ==
    [ls EXCEPT !.is_drawing = FALSE, !.commit_slot = 0]

\* The round state payout_handler leaves: winner is not written.
PayoutLotteryState(ls) ==
    [ls EXCEPT !.total_participants = 0,
               !.current_lottery_id = @ + 1,
               !.lottery_endtime = @ + PAYOUT_EXTENSION,
               !.is_drawing = FALSE,
               !.commit_slot = 0]

\* payout_handler without the require! on is_drawing.
PayoutError_NoDrawingCheck(signer, ticket, winner) ==
    LET ls == lottery_state
    IN  IF ticket \notin DOMAIN tickets THEN "AccountNotInitialized"
        ELSE IF signer # ls.authority THEN "UnauthorizedAuthority"
        ELSE IF ls.winner = 0 /\ overflow_checks THEN "ProgramPanic"
        ELSE IF ticket # <<ls.current_lottery_id, WinnerSeedIndex(ls.winner)>>
             THEN "ConstraintSeeds"
        ELSE IF tickets[ticket].lottery_id # ls.current_lottery_id THEN "InvalidWinner"
        ELSE IF tickets[ticket].is_winner THEN "InvalidWinner"
        ELSE IF winner # tickets[ticket].user THEN "InvalidWinner"
        ELSE IF lamports[PotVault] * ls.platform_fee_bps > LAMPORTS_MAX
                /\ overflow_checks THEN "ProgramPanic"
        ELSE IF ls.current_lottery_id + 1 > LOTTERY_ID_MAX THEN "Overflow"
        ELSE Ok

\* The outcome of payout signed by `signer`, handed `ticket` as winning_ticket
\* and `winner` as the winner's wallet.  The constraint of `authority` reads
\* lottery_state, a later field: constraints run once every account is loaded.
PayoutError(signer, ticket, winner) ==
    LET ls    == lottery_state
        pot   == lamports[PotVault]
        fee   == PlatformFeeAmount(pot, ls.platform_fee_bps)
        prize == WinnerPrizeAmount(pot, fee)
    IN  IF ticket \notin DOMAIN tickets THEN "AccountNotInitialized"
        ELSE IF signer # ls.authority THEN "UnauthorizedAuthority"
        ELSE IF ls.winner = 0 /\ overflow_checks THEN "ProgramPanic"
        ELSE IF ticket # <<ls.current_lottery_id, WinnerSeedIndex(ls.winner)>>
             THEN "ConstraintSeeds"
        ELSE IF tickets[ticket].lottery_id # ls.current_lottery_id THEN "InvalidWinner"
        ELSE IF tickets[ticket].is_winner THEN "InvalidWinner"
        ELSE IF winner # tickets[ticket].user THEN "InvalidWinner"
        ELSE IF ~ls.is_drawing THEN "DrawNotRequested"
        ELSE IF pot * ls.platform_fee_bps > LAMPORTS_MAX /\ overflow_checks
             THEN "ProgramPanic"
        ELSE IF fee > pot THEN "Overflow"
        ELSE IF lamports[PlatformWallet] + fee > LAMPORTS_MAX
                \/ lamports[winner] + prize > LAMPORTS_MAX THEN "ProgramPanic"
        ELSE IF ls.current_lottery_id + 1 > LOTTERY_ID_MAX THEN "Overflow"
        ELSE Ok

Payout(signer, ticket, winner) ==
    LET pot   == lamports[PotVault]
        fee   == PlatformFeeAmount(pot, lottery_state.platform_fee_bps)
        prize == WinnerPrizeAmount(pot, fee)
    IN  /\ PayoutError(signer, ticket, winner) = Ok
        /\ last' = "payout"
        /\ lamports' = PayoutLamports(lamports, winner, fee, prize)
        /\ tickets' = [tickets EXCEPT ![ticket] =
                          [@ EXCEPT !.is_winner = TRUE, !.prize_amount = prize]]
        /\ lottery_state' = PayoutLotteryState(lottery_state)
        /\ paid' = Append(paid, lottery_state.current_lottery_id)
        /\ resolved' = FALSE
        /\ UNCHANGED <<receipts, now, pending, overflow_checks>>

\* ------------------------------------------------------------------ reset
\* reset_handle keeping the lottery id.
ResetLotteryState_SameId(ls) ==
    [ls EXCEPT !.winner = 0,
               !.total_participants = 0,
               !.lottery_endtime = @ + RESET_EXTENSION,
               !.is_drawing = FALSE,
               !.commit_slot = 0]

\* The round state reset_handle leaves.
ResetLotteryState(ls) ==
    [ls EXCEPT !.winner = 0,
               !.total_participants = 0,
               !.current_lottery_id = @ + 1,
               !.lottery_endtime = @ + RESET_EXTENSION,
               !.is_drawing = FALSE,
               !.commit_slot = 0]

\* reset without the require! on total_participants.
ResetError_NoPlayersCheck(signer) ==
    IF ~(now >= lottery_state.lottery_endtime) THEN "LotteryNotOver"
    ELSE IF lottery_state.current_lottery_id + 1 > LOTTERY_ID_MAX THEN "Overflow"
    ELSE Ok

\* The outcome of reset: no authority constraint, then the two require!.
ResetError(signer) ==
    IF ~(now >= lottery_state.lottery_endtime) THEN "LotteryNotOver"
    ELSE IF ~(lottery_state.total_participants = 0) THEN "CannotRolloverWithPlayers"
    ELSE IF lottery_state.current_lottery_id + 1 > LOTTERY_ID_MAX THEN "Overflow"
    ELSE Ok

Reset(signer) ==
    /\ ResetError(signer) = Ok
    /\ last' = "reset"
    /\ lottery_state' = ResetLotteryState(lottery_state)
    /\ resolved' = FALSE
    /\ UNCHANGED <<lamports, tickets, receipts, now, pending,
                   overflow_checks, paid>>

EnterLotteryStep == \E user \in Users : EnterLottery(user)
RequestDrawStep == \E signer \in Signers, q \in OracleQueues : RequestDraw(signer, q)
ResolveDrawStep ==
    \E signer \in CallbackSigners, raw \in RandomValues : ResolveDraw(signer, raw)
PayoutStep ==
    \E signer \in Signers, ticket \in DOMAIN tickets \cup {NoAccount}, winner \in Users :
        Payout(signer, ticket, winner)
ResetStep == \E signer \in Signers : Reset(signer)

Next ==
    \/ Tick
    \/ EnterLotteryStep
    \/ RequestDrawStep
    \/ ResolveDrawStep
    \/ PayoutStep
    \/ ResetStep

Spec == Init /\ [][Next]_vars

\* ======================================================================
\* Properties
\* ======================================================================
CurrentId == lottery_state.current_lottery_id

\* The step is a successful call of instruction `op`: the instructions leave
\* the clock alone and record their name, the clock tick records nothing.
Did(op) == now' = now /\ last' = op
Ticked == now' # now
TicketsOf(id) == {k \in DOMAIN tickets : tickets[k].lottery_id = id}
WinnersOf(id) == {k \in TicketsOf(id) : tickets[k].is_winner}

\* C1: a payout succeeds for a round only after a resolve_draw callback wrote
\* the winner index after that round's request_draw; it never acts on a winner
\* index left over from an earlier round or from initialization.
C1_PayoutOnlyAfterResolve == [][Did("payout") => resolved]_vars

\* C2: no double payout.  Each lottery id is paid at most once, at most one
\* ticket of a round is a winner, a ticket changes only in the payout of its
\* own round (is_winner FALSE -> TRUE, prize set) and never again, and right
\* after a successful payout every payout call fails.
C2_Inv ==
    /\ \A i, j \in 1..Len(paid) : paid[i] = paid[j] => i = j
    /\ \A id \in 1..LOTTERY_ID_MAX : Cardinality(WinnersOf(id)) <= 1
    /\ \A k \in DOMAIN tickets : ~tickets[k].is_winner => tickets[k].prize_amount = 0
    /\ last = "payout" =>
          \A signer \in Signers, ticket \in DOMAIN tickets \cup {NoAccount},
             winner \in Users : PayoutError(signer, ticket, winner) # Ok

C2_Act ==
    \A k \in DOMAIN tickets :
        tickets'[k] # tickets[k] =>
            /\ Did("payout")
            /\ k[1] = CurrentId
            /\ tickets[k].lottery_id = CurrentId
            /\ ~tickets[k].is_winner
            /\ tickets'[k] = [tickets[k] EXCEPT
                    !.is_winner = TRUE,
                    !.prize_amount = lamports[PotVault] - lamports'[PlatformWallet]
                                        + lamports[PlatformWallet]]
            /\ \A k2 \in DOMAIN tickets : k2 # k => tickets'[k2] = tickets[k2]

C2_NoDoublePayout == []C2_Inv /\ [][C2_Act]_vars

\* C2 witness: two rounds have been paid, each with its one winning ticket.
C2_Witness ==
    /\ Len(paid) = 2
    /\ \A i \in 1..2 : Cardinality(WinnersOf(paid[i])) = 1
    /\ last = "payout"

\* The ticket the winner index names in the current round.
WinningTicketKey == <<CurrentId, lottery_state.winner - 1>>

\* C3: in every successful payout, with P the pot vault balance at the start,
\* fee = floor(P * fee_bps / 10000) and prize = P - fee, so fee + prize = P;
\* the platform wallet is credited fee and the winning ticket's owner prize.
\* For fee_bps = 500 and P = 3000 the fee is 150 and the prize 2850.
C3_Act ==
    Did("payout") =>
        LET P     == lamports[PotVault]
            fee   == (P * lottery_state.platform_fee_bps) \div BPS_DENOMINATOR
            prize == P - fee
            owner == tickets[WinningTicketKey].user
        IN  /\ fee + prize = P
            /\ lamports'[PlatformWallet] = lamports[PlatformWallet] + fee
            /\ lamports'[owner] = lamports[owner] + prize
            /\ tickets'[WinningTicketKey].prize_amount = prize

C3_FeePrizeSplit ==
    /\ PlatformFeeAmount(3000, 500) = 150
    /\ WinnerPrizeAmount(3000, PlatformFeeAmount(3000, 500)) = 2850
    /\ [][C3_Act]_vars

RECURSIVE SumLamports(_, _)
SumLamports(lp, holders) ==
    IF holders = {} THEN 0
    ELSE LET h == CHOOSE x \in holders : TRUE
         IN  lp[h] + SumLamports(lp, holders \ {h})

MovedOnly(from, to, amount) ==
    /\ lamports'[from] = lamports[from] - amount
    /\ lamports'[to] = lamports[to] + amount
    /\ \A h \in Holders \ {from, to} : lamports'[h] = lamports[h]

\* C4: conservation of value.  The lamports of the pot vault, the platform
\* wallet and the users always sum to the initial total; enter_lottery moves
\* exactly ticket_price from the buyer to the pot vault; payout empties the
\* pot vault into the platform wallet and the winner; request_draw,
\* resolve_draw and reset move nothing.
C4_Inv == SumLamports(lamports, Holders) = Cardinality(Users) * UserLamports

C4_Act ==
    /\ Did("enter_lottery") =>
          \E user \in Users : MovedOnly(user, PotVault, lottery_state.ticket_price)
    /\ Did("payout") =>
          /\ lamports'[PotVault] = 0
          /\ \E winner \in Users :
                /\ lamports'[PlatformWallet] + lamports'[winner]
                     = lamports[PlatformWallet] + lamports[winner] + lamports[PotVault]
                /\ lamports'[PlatformWallet] >= lamports[PlatformWallet]
                /\ lamports'[winner] >= lamports[winner]
                /\ \A h \in Users \ {winner} : lamports'[h] = lamports[h]
    /\ (Did("request_draw") \/ Did("resolve_draw") \/ Did("reset"))
          => lamports' = lamports

C5_WinnerInRange ==
    last = "resolve_draw" =>
        IF lottery_state.total_participants > 0
        THEN lottery_state.winner \in 1..lottery_state.total_participants
        ELSE lottery_state.winner = 0

\* C5 witness: a callback picked the last of two participants.
C5_Witness ==
    /\ last = "resolve_draw"
    /\ lottery_state.total_participants = 2
    /\ lottery_state.winner = 2

\* The outcomes of payout that reject the call without evaluating winner - 1.
RejectedBeforeSeeds ==
    {"AccountNotInitialized", "UnauthorizedAuthority", "InvalidWinner",
     "DrawNotRequested"}

\* C6: whenever the winner index is 0, a payout call is rejected with an
\* explicit error before winner - 1 is computed: it neither panics on the
\* subtraction nor looks a ticket up under the wrapped index.
C6_ZeroWinnerRejected ==
    lottery_state.winner = 0 =>
        \A signer \in Signers, ticket \in DOMAIN tickets \cup {NoAccount},
           winner \in Users :
            PayoutError(signer, ticket, winner) \in RejectedBeforeSeeds

Participants == lottery_state.total_participants

\* C7: the round id starts at 1, grows by exactly 1 in every successful
\* payout and every successful reset and changes in no other step, so it
\* never decreases and the ids paid out are never reused.
C7_Inv ==
    /\ CurrentId >= 1
    /\ \A i \in 1..Len(paid) : paid[i] < CurrentId
    /\ \A i, j \in 1..Len(paid) : i < j => paid[i] < paid[j]

C7_Act ==
    /\ (Did("payout") \/ Did("reset")) => CurrentId' = CurrentId + 1
    /\ (Ticked \/ Did("enter_lottery") \/ Did("request_draw") \/ Did("resolve_draw"))
          => CurrentId' = CurrentId
    /\ CurrentId' >= CurrentId

C7_RoundIdMonotonic == (CurrentId = 1) /\ []C7_Inv /\ [][C7_Act]_vars

\* C7 witness: one payout and one reset later the round id is 3.
C7_Witness == CurrentId = 3 /\ Len(paid) = 1 /\ last = "reset"

\* C8: the participant count grows by exactly 1 in every successful
\* enter_lottery, is set to 0 only by a successful payout or reset, where the
\* round id advances, changes in no other step, and enter_lottery answers
\* Overflow only when the count is at the ceiling of its type.
C8_Inv ==
    \A user \in Users :
        EnterLotteryError(user) = "Overflow" => Participants = U64_MAX

C8_Act ==
    /\ Did("enter_lottery") => Participants' = Participants + 1
    /\ (Did("payout") \/ Did("reset")) =>
          Participants' = 0 /\ CurrentId' = CurrentId + 1
    /\ Participants' # Participants =>
          (Did("enter_lottery") \/ Did("payout") \/ Did("reset"))
    /\ Participants' < Participants =>
          Participants' = 0 /\ CurrentId' = CurrentId + 1

C8_ParticipantCount == []C8_Inv /\ [][C8_Act]_vars

\* C8 witness: the count stands at its ceiling after an entry and the next
\* buyer is answered Overflow.
C8_Witness ==
    /\ last = "enter_lottery"
    /\ Participants = U64_MAX
    /\ \E user \in Users : EnterLotteryError(user) = "Overflow"

TicketsOfUser(user, id) ==
    {k \in DOMAIN tickets : tickets[k].user = user /\ tickets[k].lottery_id = id}

\* C9: one entry per buyer per round.  A receipt is stored under its own
\* (owner, round id); a buyer holds at most one ticket of a round, and holds
\* one exactly when the receipt exists; a buyer with a receipt of the current
\* round is refused by the key collision, and a buyer without one is never
\* refused by it, whatever earlier rounds the buyer entered.
C9_OneEntryPerRound ==
    /\ \A k \in DOMAIN receipts :
          receipts[k].user = k[1] /\ receipts[k].lottery_id = k[2]
    /\ \A user \in Users, id \in 1..LOTTERY_ID_MAX :
          Cardinality(TicketsOfUser(user, id))
             = IF <<user, id>> \in DOMAIN receipts THEN 1 ELSE 0
    /\ \A user \in Users :
          (<<user, CurrentId>> \in DOMAIN receipts)
             <=> (EnterLotteryError(user) = "ReceiptAlreadyInUse")

\* C9 witness: a buyer of round 1 has entered round 2 as well, and a further
\* entry of that buyer in round 2 collides.
C9_Witness ==
    \E user \in Users :
        /\ CurrentId = 2
        /\ {<<user, 1>>, <<user, 2>>} \subseteq DOMAIN receipts
        /\ EnterLotteryError(user) = "ReceiptAlreadyInUse"

\* C10: before the end time request_draw fails with LotteryNotOver and
\* drawing stays FALSE; from the end time on it succeeds exactly once per
\* round, setting drawing: while drawing is already TRUE it does not succeed
\* and issues no further randomness request.
C10_Inv ==
    now < lottery_state.lottery_endtime =>
        /\ RequestDrawError(Authority, DEFAULT_QUEUE) = "LotteryNotOver"
        /\ ~lottery_state.is_drawing

C10_Act ==
    Did("request_draw") =>
        /\ now >= lottery_state.lottery_endtime
        /\ ~lottery_state.is_drawing
        /\ lottery_state'.is_drawing
        /\ pending' = pending + 1

C10_RequestDrawOnce == []C10_Inv /\ [][C10_Act]_vars

HasReceipt(user) == <<user, CurrentId>> \in DOMAIN receipts
CanBuy(user) ==
    /\ ~HasReceipt(user)
    /\ Participants < U64_MAX
    /\ lamports[user] >= lottery_state.ticket_price

\* While drawing is FALSE a first-time buyer who holds the price is accepted
\* below the ceiling of the count, before and after the end time alike.
EntryOpenWheneverNotDrawing ==
    ~lottery_state.is_drawing =>
        \A user \in Users : CanBuy(user) => EnterLotteryError(user) = Ok

\* C11 as stated: while drawing is TRUE every enter_lottery fails with
\* LotteryIsDrawing; while drawing is FALSE a first-time buyer is accepted
\* whether or not the end time has passed.
C11_AlwaysLotteryIsDrawing ==
    /\ lottery_state.is_drawing =>
          \A user \in Users : EnterLotteryError(user) = "LotteryIsDrawing"
    /\ EntryOpenWheneverNotDrawing

\* C11 amended: while drawing is TRUE every enter_lottery fails, with
\* LotteryIsDrawing for a buyer without a receipt of the round and with the
\* receipt key collision for a buyer who has one; while drawing is FALSE a
\* first-time buyer is accepted whether or not the end time has passed.
C11_EntryGatedByDrawing ==
    /\ lottery_state.is_drawing =>
          \A user \in Users :
              EnterLotteryError(user) =
                  IF HasReceipt(user) THEN "ReceiptAlreadyInUse"
                  ELSE "LotteryIsDrawing"
    /\ EntryOpenWheneverNotDrawing

\* C11 witness: the draw is requested; one buyer of the round and one
\* newcomer both try to enter.
C11_Witness ==
    /\ lottery_state.is_drawing
    /\ \E user \in Users : EnterLotteryError(user) = "ReceiptAlreadyInUse"
    /\ \E user \in Users : EnterLotteryError(user) = "LotteryIsDrawing"

PayoutInputs ==
    {Authority} \X (DOMAIN tickets \cup {NoAccount}) \X Users

\* The call hands in the ticket the winner index names, not yet a winner,
\* with its owner's wallet.
PassesTicketValidation(ticket, winner) ==
    /\ lottery_state.winner >= 1
    /\ ticket = WinningTicketKey
    /\ ticket \in DOMAIN tickets
    /\ ~tickets[ticket].is_winner
    /\ winner = tickets[ticket].user

\* C12 as stated: while drawing is FALSE every payout call of the authority
\* fails with DrawNotRequested.
C12_AlwaysDrawNotRequested ==
    ~lottery_state.is_drawing =>
        \A c \in PayoutInputs : PayoutError(c[1], c[2], c[3]) = "DrawNotRequested"

\* C12 amended: while drawing is FALSE every payout call of the authority
\* fails: with DrawNotRequested when the winning_ticket handed in passes its
\* account validation, and with the error of that validation otherwise.
C12_PayoutNeedsDraw ==
    ~lottery_state.is_drawing =>
        \A c \in PayoutInputs :
            IF PassesTicketValidation(c[2], c[3])
            THEN PayoutError(c[1], c[2], c[3]) = "DrawNotRequested"
            ELSE PayoutError(c[1], c[2], c[3]) \in
                    {"AccountNotInitialized", "ProgramPanic", "ConstraintSeeds",
                     "InvalidWinner"}

\* C12 witness: drawing is FALSE, a payout handing in the ticket named by
\* the winner index is answered DrawNotRequested and another call is stopped
\* by the account validation.
C12_Witness ==
    /\ ~lottery_state.is_drawing
    /\ \E c \in PayoutInputs : PayoutError(c[1], c[2], c[3]) = "DrawNotRequested"
    /\ \E c \in PayoutInputs : PayoutError(c[1], c[2], c[3]) = "ConstraintSeeds"

\* C13 as stated: with participants, reset fails with
\* CannotRolloverWithPlayers before and after the end time.
C13_AlwaysCannotRollover ==
    Participants > 0 =>
        \A signer \in Signers : ResetError(signer) = "CannotRolloverWithPlayers"

\* C13 amended: with participants, reset always fails: with
\* CannotRolloverWithPlayers from the end time on and with LotteryNotOver
\* before it.
C13_ResetRefusedWithPlayers ==
    Participants > 0 =>
        \A signer \in Signers :
            ResetError(signer) =
                IF now >= lottery_state.lottery_endtime
                THEN "CannotRolloverWithPlayers"
                ELSE "LotteryNotOver"

\* C13 witness: past the end time, with two participants, reset is refused.
C13_Witness ==
    /\ Participants = 2
    /\ now > lottery_state.lottery_endtime
    /\ \A signer \in Signers : ResetError(signer) = "CannotRolloverWithPlayers"

\* A draw is requested and no callback has answered it.
Stalled == lottery_state.is_drawing /\ ~resolved

\* C14: while a requested draw is unanswered, no enter_lottery, request_draw,
\* payout or reset ends the wait: drawing stays TRUE, the round id stays and
\* no lamports leave the pot.
C14_StalledDrawStays ==
    [][(Stalled /\ ~Did("resolve_draw")) =>
          /\ lottery_state'.is_drawing
          /\ CurrentId' = CurrentId
          /\ lamports'[PotVault] >= lamports[PotVault]]_vars

\* C15: drawing turns TRUE only in request_draw and FALSE only in payout, and
\* reset is taken only with drawing FALSE and no participants.
C15_DrawingFlagTransitions ==
    /\ [][(~lottery_state.is_drawing /\ lottery_state'.is_drawing)
             => Did("request_draw")]_vars
    /\ [][(lottery_state.is_drawing /\ ~lottery_state'.is_drawing)
             => Did("payout")]_vars
    /\ [][Did("reset") => (~lottery_state.is_drawing /\ Participants = 0)]_vars

Strangers == Signers \ {lottery_state.authority}
StrangerPayoutInputs ==
    Strangers \X (DOMAIN tickets \cup {NoAccount}) \X Users

\* request_draw refuses every signer but the authority, and reset accepts any
\* signer once the end time has passed with no participants (below the
\* ceiling of the round id).
StrangerDrawRefusedResetOpen ==
    /\ \A signer \in Strangers : \A q \in OracleQueues :
           RequestDrawError(signer, q) = "UnauthorizedAuthority"
    /\ (/\ now >= lottery_state.lottery_endtime
        /\ Participants = 0
        /\ CurrentId < LOTTERY_ID_MAX)
           => \A signer \in Signers : ResetError(signer) = Ok

\* C16 as stated: request_draw and payout signed by another than the
\* authority fail with UnauthorizedAuthority in every state; reset by any
\* signer succeeds once the end time has passed with no participants.
C16_AlwaysUnauthorized ==
    /\ StrangerDrawRefusedResetOpen
    /\ \A c \in StrangerPayoutInputs :
           PayoutError(c[1], c[2], c[3]) = "UnauthorizedAuthority"

\* C16 amended: as stated, except that payout signed by another than the
\* authority fails with UnauthorizedAuthority when the winning_ticket handed
\* in is an initialized ticket, and with AccountNotInitialized when it is not.
C16_AuthorityGating ==
    /\ StrangerDrawRefusedResetOpen
    /\ \A c \in StrangerPayoutInputs :
           PayoutError(c[1], c[2], c[3]) =
               IF c[2] \in DOMAIN tickets THEN "UnauthorizedAuthority"
               ELSE "AccountNotInitialized"

\* C16 witness: a round is over and drawn with participants, tickets exist,
\* and a stranger's request_draw and payout are refused; and reset is open to
\* the stranger in an empty round past its end time.
C16_Witness ==
    /\ Strangers # {}
    /\ now >= lottery_state.lottery_endtime
    /\ Participants = 0
    /\ CurrentId < LOTTERY_ID_MAX
    /\ \A signer \in Strangers : ResetError(signer) = Ok
    /\ \E c \in StrangerPayoutInputs :
           PayoutError(c[1], c[2], c[3]) = "UnauthorizedAuthority"

\* C17: no payout call carries a value that left the 64-bit range: a payout
\* that succeeds has multiplied balance and fee within range and credited
\* within range, and a call that subtracts 1 from a winner of 0 aborts there.
C17_PayoutArithmeticChecked ==
    /\ [][Did("payout") =>
            /\ lamports[PotVault] * lottery_state.platform_fee_bps <= LAMPORTS_MAX
            /\ lottery_state.winner >= 1
            /\ \A h \in Holders : lamports'[h] <= LAMPORTS_MAX]_vars
    /\ [](lottery_state.winner = 0 =>
            \A c \in PayoutInputs :
                c[2] \in DOMAIN tickets =>
                    PayoutError(c[1], c[2], c[3]) \in {"Overflow", "ProgramPanic"})

\* C18: resolve_draw signed by the oracle identity is accepted in every state,
\* whatever drawing and whatever was resolved before; it writes the winner
\* index and nothing else; the winner index changes in no other step but a
\* reset, which clears it; and payout marks and pays the ticket the stored
\* winner index names, that is the one the latest callback selected.
C18_Inv ==
    \A raw \in RandomValues : ResolveDrawError(VRF_PROGRAM_IDENTITY, raw) = Ok
C18_Act ==
    /\ Did("resolve_draw") =>
          /\ \E raw \in RandomValues :
                 lottery_state' = [lottery_state EXCEPT !.winner =
                                      ResolvedWinner(raw, Participants)]
          /\ UNCHANGED <<lamports, tickets, receipts>>
    /\ lottery_state'.winner # lottery_state.winner =>
          \/ Did("resolve_draw")
          \/ Did("reset") /\ lottery_state'.winner = 0
    /\ Did("payout") =>
          /\ lottery_state.winner >= 1
          /\ WinningTicketKey \in DOMAIN tickets
          /\ ~tickets[WinningTicketKey].is_winner
          /\ tickets'[WinningTicketKey].is_winner
          /\ \A k \in DOMAIN tickets \ {WinningTicketKey} : tickets'[k] = tickets[k]
          /\ \A u \in Users \ {tickets[WinningTicketKey].user} :
                 lamports'[u] = lamports[u]
C18_ResolveDrawFrame == []C18_Inv /\ [][C18_Act]_vars

\* C18 witness: after a round was paid on a callback's winner, a further
\* callback has overwritten the winner index while drawing is FALSE.
C18_Witness ==
    /\ last = "resolve_draw"
    /\ ~lottery_state.is_drawing
    /\ lottery_state.winner >= 1
    /\ Len(paid) >= 1

\* C19: the tickets of the current round occupy exactly the indices
\* 0..total_participants-1; every ticket at index i has its owner's receipt
\* of that round with ticket number i+1; the key of the next ticket is never
\* taken; and a successful payout pays a ticket whose index is below the
\* participant count.
C19_Inv ==
    /\ {k \in DOMAIN tickets : k[1] = CurrentId}
           = {<<CurrentId, i>> : i \in 0..(Participants - 1)}
    /\ \A k \in DOMAIN tickets :
           /\ tickets[k].lottery_id = k[1]
           /\ <<tickets[k].user, k[1]>> \in DOMAIN receipts
           /\ receipts[<<tickets[k].user, k[1]>>].ticket_number = k[2] + 1
    /\ NewTicketKey \notin DOMAIN tickets
    /\ \A user \in Users : EnterLotteryError(user) # "TicketAlreadyInUse"
C19_Act ==
    Did("payout") =>
        /\ lottery_state.winner >= 1
        /\ lottery_state.winner - 1 < Participants
        /\ tickets'[WinningTicketKey].is_winner
C19_TicketIndexing == []C19_Inv /\ [][C19_Act]_vars

\* C19 witness: after a paid round, the next round holds two tickets, at
\* indices 0 and 1.
C19_Witness ==
    /\ Len(paid) >= 1
    /\ Participants = 2
    /\ last = "enter_lottery"
    /\ {<<CurrentId, 0>>, <<CurrentId, 1>>} \subseteq DOMAIN tickets

\* C20: the pot vault holds at least ticket_price * total_participants in
\* every state; while drawing is TRUE the participant count changes only in
\* the payout that ends the round; and a successful payout pays out the whole
\* pot, leaving 0, which is no less than the ticket revenue of the round.
C20_Inv ==
    lamports[PotVault] >= lottery_state.ticket_price * Participants
C20_Act ==
    /\ lottery_state.is_drawing =>
          \/ Participants' = Participants
          \/ Did("payout") /\ Participants' = 0
    /\ Did("payout") =>
          /\ lamports'[PotVault] = 0
          /\ SumLamports(lamports', Holders \ {PotVault})
                 - SumLamports(lamports, Holders \ {PotVault})
               = lamports[PotVault]
          /\ lamports[PotVault] >= lottery_state.ticket_price * Participants
C20_PotCoversRevenue == []C20_Inv /\ [][C20_Act]_vars

\* C20 witness: a round of two tickets has just been paid in full.
C20_Witness ==
    /\ last = "payout"
    /\ lamports[PotVault] = 0
    /\ lamports[PlatformWallet] > 0
    /\ \E k \in DOMAIN tickets : tickets[k].prize_amount > lottery_state.ticket_price
====
